---- MODULE Spec2Model ----
(***************************************************************************)
(* Model of the Redis-backed task queue and key-value cache of             *)
(* internal/queue/redis.go (RedisQueue) together with the consumers that   *)
(* draw tasks from it.                                                     *)
(*                                                                         *)
(* The Redis server is modelled as one keyspace shared by the lists that   *)
(* hold the queues and by the string keys of the cache.  A Redis command   *)
(* is atomic at the server; a command that fails in transport has no       *)
(* effect and its error reaches the caller.  Time advances in ticks of     *)
(* 1/TicksPerSecond seconds.                                               *)
(***************************************************************************)
EXTENDS Integers, Sequences, FiniteSets, Bags, TLC

(***************************************************************************)
(* Bounds of the model.                                                    *)
(***************************************************************************)
MaxEnq == 2             \* Enqueue calls in one run (also bounds list length)
MaxTimeout == 2         \* largest Dequeue timeout, in ticks
TicksPerSecond == 2     \* ticks in one second: one tick is 500ms

Keys == {"evaluations", "calibration"}
Consumers == {"w1", "w2"}

(***************************************************************************)
(* Go values.  A slice or map that may be nil is a record with a null      *)
(* flag; a value of type interface{} carries its dynamic type in kind.     *)
(***************************************************************************)
NilSlice == [null |-> TRUE, items |-> <<>>]
Slice(s) == [null |-> FALSE, items |-> s]

StrVal(s) == [kind |-> "string", str |-> s, num |-> 0]
IntVal(n) == [kind |-> "int", str |-> "", num |-> n]
FloatVal(n) == [kind |-> "float64", str |-> "", num |-> n]
NaNVal == [kind |-> "nan", str |-> "", num |-> 0]
NilVal == [kind |-> "nil", str |-> "", num |-> 0]

NilMap == [null |-> TRUE, entries |-> {}]
Map(es) == [null |-> FALSE, entries |-> es]

\* time.Time: the wall-clock instant and whether a monotonic reading is attached
Time(w, m) == [wall |-> w, mono |-> m]

\* queue.Task
Task(id, ty, conv, ev, pl, at) ==
    [ID |-> id, Type |-> ty, ConversationID |-> conv,
     EvaluatorTypes |-> ev, Payload |-> pl, CreatedAt |-> at]

\* the zero Task: what "var task Task" holds, and the placeholder of a nil *Task
ZeroTask == Task("", "", "", NilSlice, NilMap, Time(0, FALSE))

(***************************************************************************)
(* encoding/json of a Task.  The JSON text is modelled by its content: the *)
(* members that are present and their JSON values.                         *)
(***************************************************************************)
NullJSON == [kind |-> "null", str |-> "", num |-> 0]

JSONValue(v) ==
    IF v.kind = "string" THEN [kind |-> "string", str |-> v.str, num |-> 0]
    ELSE IF v.kind = "nil" THEN NullJSON
    ELSE [kind |-> "number", str |-> "", num |-> v.num]

GoValue(j) ==
    IF j.kind = "string" THEN StrVal(j.str) ELSE FloatVal(j.num)

Garbage == [kind |-> "garbage", id |-> "", type |-> "", conversation_id |-> "",
            evaluator_types |-> [present |-> FALSE, items |-> <<>>],
            payload |-> [present |-> FALSE, entries |-> {}],
            created_at |-> 0]

\* json.Marshal(task): NaN is an unsupported value; omitempty drops a member
\* whose slice or map has length 0, nil or not
MarshalOk(t) == \A e \in t.Payload.entries : e.val.kind # "nan"

MarshalKeepsEmpty(t) ==
    [kind |-> "object", id |-> t.ID, type |-> t.Type,
     conversation_id |-> t.ConversationID,
     evaluator_types |-> [present |-> ~t.EvaluatorTypes.null,
                          items |-> t.EvaluatorTypes.items],
     payload |-> [present |-> ~t.Payload.null,
                  entries |-> {[key |-> e.key, val |-> JSONValue(e.val)] :
                                  e \in t.Payload.entries}],
     created_at |-> t.CreatedAt.wall]

Marshal(t) ==
    [kind |-> "object", id |-> t.ID, type |-> t.Type,
     conversation_id |-> t.ConversationID,
     evaluator_types |-> [present |-> Len(t.EvaluatorTypes.items) > 0,
                          items |-> t.EvaluatorTypes.items],
     payload |-> [present |-> t.Payload.entries # {},
                  entries |-> {[key |-> e.key, val |-> JSONValue(e.val)] :
                                  e \in t.Payload.entries}],
     created_at |-> t.CreatedAt.wall]

\* texts that are no JSON object: the JSON null (also what json.Marshal gives
\* for a nil *Task) and a JSON array
NullText == [Garbage EXCEPT !.kind = "null"]
ArrayText == [Garbage EXCEPT !.kind = "array"]

\* json.Unmarshal(data, &task) into a zero Task: a text that is no JSON and a
\* JSON value of another type are errors; the JSON null is no error and leaves
\* the task as it is
UnmarshalOk(d) == d.kind \in {"object", "null"}

Unmarshal(d) ==
    Task(d.id, d.type, d.conversation_id,
         IF d.evaluator_types.present THEN Slice(d.evaluator_types.items)
                                      ELSE NilSlice,
         IF d.payload.present
            THEN Map({[key |-> e.key, val |-> GoValue(e.val)] : e \in d.payload.entries})
            ELSE NilMap,
         Time(d.created_at, FALSE))

(***************************************************************************)
(* The Redis keyspace.  A key holds nothing, a list (a queue) or a string  *)
(* (a cache entry, with the ticks left before it expires; 0 = no expiry).  *)
(***************************************************************************)
NoKey == [kind |-> "none", items |-> <<>>, data |-> NullJSON, ttl |-> 0]
ListKey(s) == IF s = <<>> THEN NoKey
              ELSE [kind |-> "list", items |-> s, data |-> NullJSON, ttl |-> 0]
StringKey(d, ttl) == [kind |-> "string", items |-> <<>>, data |-> d, ttl |-> ttl]

\* RPUSH key data: appends at the tail; WRONGTYPE on a key that holds a string
RPushAnyType(v) == TRUE
RPushOk(v) == v.kind # "string"
RPushAtHead(v, data) == ListKey(<<data>> \o v.items)
RPushOverwrites(v, data) == ListKey(<<data>>)
RPush(v, data) == ListKey(Append(v.items, data))

\* the pop of BLPOP key: removes the head; an emptied list is no key any more
LPopHead(v) == Head(v.items)
LPopKeepsHead(v) == v
LPop(v) == ListKey(Tail(v.items))

\* LLEN key
LLenExists(v) == IF v.items = <<>> THEN 0 ELSE 1
LLen(v) == Len(v.items)

\* SET key data [EX ttl]: replaces whatever the key holds
SetKey(v, data, ttl) == StringKey(data, ttl)

\* DEL key: removes the key whatever it holds
DelKey(v) == NoKey

(***************************************************************************)
(* go-redis: the timeout BLPOP sends is in whole seconds.  A timeout       *)
(* below one second is sent as 1, any other is truncated; the server       *)
(* takes 0 as "block until an element arrives".                            *)
(***************************************************************************)
formatSec(dur) ==
    IF dur > 0 /\ dur < TicksPerSecond THEN 1 ELSE dur \div TicksPerSecond

Forever == 0 - 1
ServerTicks(dur) ==
    IF formatSec(dur) = 0 THEN Forever ELSE formatSec(dur) * TicksPerSecond

(***************************************************************************)
(* Inputs.                                                                 *)
(***************************************************************************)
TaskID(n) == ToString(n)
ConversationIDs == {"c1"}
EvaluatorLists == {Slice(<<"llm_judge", "tool_call">>)}
Payloads == {NilMap, Map({[key |-> "k", val |-> NaNVal]})}
Timeouts == 0 .. MaxTimeout
TTLs == {0, 1}
\* values given to Set: a nil interface, ints, and a NaN that cannot be marshalled
CacheValues == {NilVal, IntVal(1), NaNVal}
\* what the *int passed to Get points at before the call
Dests == {0}

(***************************************************************************)
(* State.                                                                  *)
(***************************************************************************)
VARIABLES
    store,      \* the Redis keyspace: key -> what it holds
    blocked,    \* key -> the consumers blocked in BLPOP on it, longest wait first
    cons,       \* consumer -> where it is: idle, blocked in Dequeue, working on a task
    nextId,     \* the number of the next Enqueue call
    ret,        \* what the last call that returned gave its caller
    enqLog,     \* history: key -> the tasks whose Enqueue returned nil, in order
    deqLog,     \* history: key -> the tasks Dequeue returned, in order
    processed,  \* history: ids of the tasks a consumer finished
    lost,       \* history: ids of the tasks held by a consumer that crashed
    clobbered,  \* history: key -> a Set or Delete hit the key while it held a list
    gone,       \* history: key -> why the key holds no cache entry
    db,         \* the database: conversations, annotations, evaluations
    cfg,        \* the configuration the server was started with
    resp        \* the HTTP response of the last request the server answered

vars == <<store, blocked, cons, nextId, ret, enqLog, deqLog, processed, lost,
          clobbered, gone, db, cfg, resp>>

\* the state of the API server, which the queue's own operations leave alone
server == <<db, cfg, resp>>

\* a float64 that is a ratio of two integers
Rat(n, d) == [num |-> n, den |-> d]

\* config.Load without ANNOTATOR_AGREEMENT_THRESHOLD in the environment: 0.8
DefaultThreshold == Rat(4, 5)

NoResp == [op |-> "", status |-> 0, body |-> <<>>, input |-> <<>>,
           again |-> FALSE, before |-> <<>>]

Idle == [st |-> "idle", key |-> "", timeout |-> 0, left |-> 0, waited |-> 0,
         task |-> ZeroTask]
BlockedNoDeadline(k, dur) ==
    [st |-> "blocked", key |-> k, timeout |-> dur, left |-> Forever, waited |-> 0,
     task |-> ZeroTask]
Blocked(k, dur) == [st |-> "blocked", key |-> k, timeout |-> dur,
                    left |-> ServerTicks(dur), waited |-> 0, task |-> ZeroTask]
Working(t) == [st |-> "working", key |-> "", timeout |-> 0, left |-> 0,
               waited |-> 0, task |-> t]

\* what a call returned: err is "" for a nil error; isNil tells a nil *Task;
\* key is the key a Dequeue, QueueLength or Get was about
Ret(op, k, err) ==
    [op |-> op, key |-> k, err |-> err, isNil |-> TRUE, task |-> ZeroTask,
     reply |-> "", len |-> 0, dest |-> 0, destBefore |-> 0, missing |-> FALSE,
     timeout |-> 0, waited |-> 0]

\* the state after construction, with the configuration conf, on a database
\* that holds d and a Redis that holds st
StartedOn(conf, d, st) ==
    /\ store = st
    /\ blocked = [k \in Keys |-> <<>>]
    /\ cons = [c \in Consumers |-> Idle]
    /\ nextId = 1
    /\ ret = Ret("", "", "")
    /\ enqLog = [k \in Keys |-> <<>>]
    /\ deqLog = [k \in Keys |-> <<>>]
    /\ processed = {}
    /\ lost = {}
    /\ clobbered = [k \in Keys |-> FALSE]
    /\ gone = [k \in Keys |-> "never"]
    /\ db = d
    /\ cfg = conf
    /\ resp = NoResp

\* the state after construction on an empty Redis
Started(conf, d) == StartedOn(conf, d, [k \in Keys |-> NoKey])

\* the state after construction on an empty database
StartWith(conf) ==
    Started(conf, [convs |-> {}, annotations |-> <<>>, evaluations |-> <<>>])

Init == StartWith([AnnotatorAgreementThreshold |-> DefaultThreshold])

\* the server has an element for a blocked client: it hands it over before it
\* runs any other command
ServePending == \E k \in Keys : blocked[k] # <<>> /\ store[k].kind = "list"

(***************************************************************************)
(* RedisQueue.Enqueue(queueName, task)                                     *)
(***************************************************************************)
EnqueueErr(v, t, fail) ==
    IF ~MarshalOk(t) THEN "marshal"
    ELSE IF fail THEN "transport"
    ELSE IF ~RPushOk(v) THEN "wrongtype"
    ELSE ""

Enqueue(k, t, fail) ==
    /\ ~ServePending
    /\ nextId <= MaxEnq
    /\ nextId' = nextId + 1
    /\ LET err == EnqueueErr(store[k], t, fail) IN
        /\ ret' = Ret("Enqueue", "", err)
        /\ IF err = ""
           THEN /\ store' = [store EXCEPT ![k] = RPush(@, Marshal(t))]
                /\ enqLog' = [enqLog EXCEPT ![k] = Append(@, t)]
           ELSE UNCHANGED <<store, enqLog>>
    /\ UNCHANGED <<blocked, cons, deqLog, processed, lost, clobbered, gone>>

(***************************************************************************)
(* RedisQueue.Dequeue(queueName, timeout)                                  *)
(*                                                                         *)
(* The call blocks in BLPOP, so it is a call step (DequeueCall) and, when  *)
(* the list was empty, a later step that ends it: the server hands over an *)
(* element (BLPopServe), the server's timeout passes (BLPopTimeout) or the *)
(* connection fails (BLPopFail).  DequeueReturn is the code after BLPop.   *)
(***************************************************************************)
KeyElem(k) == [text |-> k, json |-> Garbage]
DataElem(d) == [text |-> "", json |-> d]

NilReply == [err |-> "redis.Nil", result |-> <<>>]
ErrReply(e) == [err |-> e, result |-> <<>>]
OkReply(k, d) == [err |-> "", result |-> <<KeyElem(k), DataElem(d)>>]

DequeueReturnSwallowsErr(reply) ==
    IF reply.err # "" \/ Len(reply.result) < 2 \/ ~UnmarshalOk(reply.result[2].json)
    THEN [err |-> "", isNil |-> TRUE, task |-> ZeroTask]
    ELSE [err |-> "", isNil |-> FALSE, task |-> Unmarshal(reply.result[2].json)]

DequeueReturnDropsTask(reply) ==
    IF reply.err # "" /\ reply.err # "redis.Nil"
    THEN [err |-> reply.err, isNil |-> TRUE, task |-> ZeroTask]
    ELSE [err |-> "", isNil |-> TRUE, task |-> ZeroTask]

DequeueReturn(reply) ==
    IF reply.err # ""
    THEN IF reply.err = "redis.Nil"
         THEN [err |-> "", isNil |-> TRUE, task |-> ZeroTask]
         ELSE [err |-> reply.err, isNil |-> TRUE, task |-> ZeroTask]
    ELSE IF Len(reply.result) < 2
    THEN [err |-> "", isNil |-> TRUE, task |-> ZeroTask]
    ELSE IF ~UnmarshalOk(reply.result[2].json)
    THEN [err |-> "unmarshal", isNil |-> TRUE, task |-> ZeroTask]
    ELSE [err |-> "", isNil |-> FALSE, task |-> Unmarshal(reply.result[2].json)]

\* Dequeue returns to consumer c, which works on the task if it got one
Return(c, k, reply, dur, waited) ==
    LET r == DequeueReturn(reply) IN
    /\ ret' = [Ret("Dequeue", k, r.err) EXCEPT !.isNil = r.isNil, !.task = r.task,
                  !.reply = IF reply.err = "" THEN "ok" ELSE reply.err,
                  !.timeout = dur, !.waited = waited]
    /\ cons' = [cons EXCEPT ![c] = IF r.isNil THEN Idle ELSE Working(r.task)]
    /\ deqLog' = IF r.isNil THEN deqLog
                 ELSE [deqLog EXCEPT ![k] = Append(@, r.task)]

Unblock(c) == [k \in Keys |-> SelectSeq(blocked[k], LAMBDA x : x # c)]

DequeueCall(c, k, dur, fail) ==
    /\ ~ServePending
    /\ cons[c].st = "idle"
    /\ IF fail
       THEN /\ Return(c, k, ErrReply("transport"), dur, 0)
            /\ UNCHANGED <<store, blocked>>
       ELSE IF store[k].kind = "string"
       THEN /\ Return(c, k, ErrReply("wrongtype"), dur, 0)
            /\ UNCHANGED <<store, blocked>>
       ELSE IF store[k].kind = "list"
       THEN /\ Return(c, k, OkReply(k, LPopHead(store[k])), dur, 0)
            /\ store' = [store EXCEPT ![k] = LPop(@)]
            /\ UNCHANGED blocked
       ELSE /\ cons' = [cons EXCEPT ![c] = Blocked(k, dur)]
            /\ blocked' = [blocked EXCEPT ![k] = Append(@, c)]
            /\ UNCHANGED <<store, ret, deqLog>>
    /\ UNCHANGED <<nextId, enqLog, processed, lost, clobbered, gone>>
    /\ UNCHANGED server

BLPopServe(c) ==
    /\ cons[c].st = "blocked"
    /\ LET k == cons[c].key IN
        /\ blocked[k] # <<>> /\ Head(blocked[k]) = c
        /\ store[k].kind = "list"
        /\ Return(c, k, OkReply(k, LPopHead(store[k])), cons[c].timeout, cons[c].waited)
        /\ store' = [store EXCEPT ![k] = LPop(@)]
    /\ blocked' = Unblock(c)
    /\ UNCHANGED <<nextId, enqLog, processed, lost, clobbered, gone>>
    /\ UNCHANGED server

BLPopTimeout(c) ==
    /\ ~ServePending
    /\ cons[c].st = "blocked"
    /\ cons[c].left = 0
    /\ Return(c, cons[c].key, NilReply, cons[c].timeout, cons[c].waited)
    /\ blocked' = Unblock(c)
    /\ UNCHANGED <<store, nextId, enqLog, processed, lost, clobbered, gone>>
    /\ UNCHANGED server

BLPopFail(c) ==
    /\ ~ServePending
    /\ cons[c].st = "blocked"
    /\ Return(c, cons[c].key, ErrReply("transport"), cons[c].timeout, cons[c].waited)
    /\ blocked' = Unblock(c)
    /\ UNCHANGED <<store, nextId, enqLog, processed, lost, clobbered, gone>>
    /\ UNCHANGED server

(***************************************************************************)
(* A consumer that holds a task finishes it, or crashes and is restarted.  *)
(***************************************************************************)
Finish(c) ==
    /\ cons[c].st = "working"
    /\ processed' = processed \cup {cons[c].task.ID}
    /\ cons' = [cons EXCEPT ![c] = Idle]
    /\ UNCHANGED <<store, blocked, nextId, ret, enqLog, deqLog, lost, clobbered, gone>>
    /\ UNCHANGED server

Crash(c) ==
    /\ cons[c].st = "working"
    /\ lost' = lost \cup {cons[c].task.ID}
    /\ cons' = [cons EXCEPT ![c] = Idle]
    /\ UNCHANGED <<store, blocked, nextId, ret, enqLog, deqLog, processed, clobbered, gone>>
    /\ UNCHANGED server

(***************************************************************************)
(* RedisQueue.QueueLength(queueName)                                       *)
(***************************************************************************)
QueueLength(k, fail) ==
    /\ ~ServePending
    /\ ret' = IF fail THEN Ret("QueueLength", k, "transport")
              ELSE IF store[k].kind = "string" THEN Ret("QueueLength", k, "wrongtype")
              ELSE [Ret("QueueLength", k, "") EXCEPT !.len = LLen(store[k])]
    /\ UNCHANGED <<store, blocked, cons, nextId, enqLog, deqLog, processed, lost,
                   clobbered, gone>>
    /\ UNCHANGED server

(***************************************************************************)
(* RedisQueue.Set(key, value, expiration)                                  *)
(***************************************************************************)
SetErr(value, fail) ==
    IF value.kind = "nan" THEN "marshal"
    ELSE IF fail THEN "transport"
    ELSE ""

Set(k, value, ttl, fail) ==
    /\ ~ServePending
    /\ ret' = Ret("Set", "", SetErr(value, fail))
    /\ IF SetErr(value, fail) = ""
       THEN /\ store' = [store EXCEPT ![k] = SetKey(@, JSONValue(value), ttl)]
            /\ clobbered' = [clobbered EXCEPT ![k] = @ \/ store[k].kind = "list"]
            /\ gone' = [gone EXCEPT ![k] = "live"]
       ELSE UNCHANGED <<store, clobbered, gone>>
    /\ UNCHANGED <<blocked, cons, nextId, enqLog, deqLog, processed, lost>>
    /\ UNCHANGED server

(***************************************************************************)
(* RedisQueue.Get(key, dest), dest pointing at an int that holds d         *)
(***************************************************************************)
\* json.Unmarshal(data, dest): null leaves *dest alone, a number is stored,
\* anything else is a type error
DecodeErr(data) == IF data.kind \in {"null", "number"} THEN "" ELSE "unmarshal"
Decode(data, d) == IF data.kind = "number" THEN data.num ELSE d

GetReturnNilIsError(v, d, fail) ==
    IF fail THEN [err |-> "transport", dest |-> d]
    ELSE IF v.kind = "none" THEN [err |-> "redis.Nil", dest |-> d]
    ELSE IF v.kind = "list" THEN [err |-> "wrongtype", dest |-> d]
    ELSE [err |-> DecodeErr(v.data), dest |-> Decode(v.data, d)]

GetReturn(v, d, fail) ==
    IF fail THEN [err |-> "transport", dest |-> d]
    ELSE IF v.kind = "none" THEN [err |-> "", dest |-> d]
    ELSE IF v.kind = "list" THEN [err |-> "wrongtype", dest |-> d]
    ELSE [err |-> DecodeErr(v.data), dest |-> Decode(v.data, d)]

Get(k, d, fail) ==
    /\ ~ServePending
    /\ LET r == GetReturn(store[k], d, fail) IN
        ret' = [Ret("Get", k, r.err) EXCEPT !.dest = r.dest, !.destBefore = d,
                   !.missing = store[k].kind = "none"]
    /\ UNCHANGED <<store, blocked, cons, nextId, enqLog, deqLog, processed, lost,
                   clobbered, gone>>
    /\ UNCHANGED server

(***************************************************************************)
(* RedisQueue.Delete(key)                                                  *)
(***************************************************************************)
Delete(k, fail) ==
    /\ ~ServePending
    /\ ret' = Ret("Delete", "", IF fail THEN "transport" ELSE "")
    /\ IF fail
       THEN UNCHANGED <<store, clobbered, gone>>
       ELSE /\ store' = [store EXCEPT ![k] = DelKey(@)]
            /\ clobbered' = [clobbered EXCEPT ![k] = @ \/ store[k].kind = "list"]
            /\ gone' = [gone EXCEPT ![k] = IF store[k].kind = "string" THEN "deleted" ELSE @]
    /\ UNCHANGED <<blocked, cons, nextId, enqLog, deqLog, processed, lost>>
    /\ UNCHANGED server

(***************************************************************************)
(* One tick of time passes: at the server the timeouts of the blocked      *)
(* clients and the expirations of the cache entries run down.  A timeout   *)
(* that has run out is answered before more time passes.  The time a       *)
(* Dequeue has waited is counted up to one second past its timeout, and    *)
(* up to one tick for a Dequeue without timeout.                           *)
(***************************************************************************)
Min(a, b) == IF a < b THEN a ELSE b

TickCons(x) ==
    IF x.st = "blocked"
    THEN [x EXCEPT !.left = IF @ = Forever THEN Forever ELSE @ - 1,
                   !.waited = Min(@ + 1, IF x.timeout = 0 THEN 1
                                         ELSE x.timeout + TicksPerSecond)]
    ELSE x

TickKey(v) ==
    IF v.kind = "string" /\ v.ttl > 0
    THEN IF v.ttl = 1 THEN NoKey ELSE [v EXCEPT !.ttl = @ - 1]
    ELSE v

Tick ==
    /\ ~ServePending
    /\ \A c \in Consumers : cons[c].st = "blocked" => cons[c].left # 0
    /\ cons' = [c \in Consumers |-> TickCons(cons[c])]
    /\ store' = [k \in Keys |-> TickKey(store[k])]
    /\ gone' = [k \in Keys |-> IF store[k].kind = "string" /\ store[k].ttl = 1
                               THEN "expired" ELSE gone[k]]
    /\ <<cons', store'>> # <<cons, store>>
    /\ UNCHANGED <<blocked, nextId, ret, enqLog, deqLog, processed, lost, clobbered>>
    /\ UNCHANGED server

(***************************************************************************)
(* The system: producers, consumers and cache users, in any interleaving.  *)
(***************************************************************************)
NewTasks == {Task(TaskID(nextId), "evaluate", conv, ev, pl, Time(nextId, TRUE)) :
                conv \in ConversationIDs, ev \in EvaluatorLists, pl \in Payloads}

\* the queues: producers and consumers of both queues; a consumer blocks in
\* Dequeue until a task arrives (timeout 0)
Next ==
    \/ \E k \in Keys, t \in NewTasks, fail \in BOOLEAN : Enqueue(k, t, fail) /\ UNCHANGED server
    \/ \E c \in Consumers, k \in Keys, fail \in BOOLEAN : DequeueCall(c, k, 0, fail)
    \/ \E c \in Consumers : BLPopServe(c)
    \/ \E c \in Consumers : BLPopFail(c)
    \/ \E c \in Consumers : Finish(c)
    \/ \E c \in Consumers : Crash(c)
    \/ \E k \in Keys, fail \in BOOLEAN : QueueLength(k, fail)

Spec == Init /\ [][Next]_vars

\* the queues under fair scheduling: the server hands a pushed element to the
\* client blocked longest, a consumer between calls calls Dequeue again, and
\* a consumer that holds a task finishes it or crashes
FairSpec ==
    /\ Spec
    /\ \A c \in Consumers :
          /\ WF_vars(BLPopServe(c))
          /\ WF_vars(\E k \in Keys : DequeueCall(c, k, 0, FALSE))
          /\ WF_vars(Finish(c) \/ Crash(c))

\* the queues in time: one consumer that calls Dequeue with every timeout
TimedConsumer == "w1"

TimedNext ==
    \/ \E k \in Keys, t \in NewTasks, fail \in BOOLEAN : Enqueue(k, t, fail) /\ UNCHANGED server
    \/ \E k \in Keys, dur \in Timeouts, fail \in BOOLEAN :
          DequeueCall(TimedConsumer, k, dur, fail)
    \/ BLPopServe(TimedConsumer)
    \/ BLPopTimeout(TimedConsumer)
    \/ BLPopFail(TimedConsumer)
    \/ Finish(TimedConsumer)
    \/ Tick

TimedSpec == Init /\ [][TimedNext]_vars

\* the cache and the queues in the one keyspace: "evaluations" is a queue, and
\* the cache is used with every key
CacheNext ==
    \/ \E t \in NewTasks, fail \in BOOLEAN : Enqueue("evaluations", t, fail) /\ UNCHANGED server
    \/ \E fail \in BOOLEAN : DequeueCall(TimedConsumer, "evaluations", 0, fail)
    \/ BLPopServe(TimedConsumer)
    \/ Finish(TimedConsumer)
    \/ \E k \in Keys, v \in CacheValues, ttl \in TTLs, fail \in BOOLEAN : Set(k, v, ttl, fail)
    \/ \E k \in Keys, d \in Dests, fail \in BOOLEAN : Get(k, d, fail)
    \/ \E k \in Keys, fail \in BOOLEAN : Delete(k, fail)
    \/ Tick

CacheSpec == Init /\ [][CacheNext]_vars

\* one task through an untouched queue: any task is enqueued onto the empty
\* "evaluations" queue of an unused store and dequeued again
RoundTripTasks ==
    {Task("a", "evaluate", conv, ev, pl, Time(1, mono)) :
        conv \in ConversationIDs,
        ev \in {NilSlice, Slice(<<>>), Slice(<<"llm_judge", "tool_call">>)},
        pl \in {NilMap, Map({}), Map({[key |-> "k", val |-> StrVal("v")]}),
                Map({[key |-> "k", val |-> IntVal(1)]}),
                Map({[key |-> "k", val |-> FloatVal(1)]}),
                Map({[key |-> "k", val |-> NaNVal]})},
        mono \in BOOLEAN}

Untouched ==
    /\ \A k \in Keys : store[k] = NoKey /\ enqLog[k] = <<>>

RoundTripNext ==
    \/ \E t \in RoundTripTasks : Untouched /\ Enqueue("evaluations", t, FALSE) /\ UNCHANGED server
    \/ DequeueCall(TimedConsumer, "evaluations", 0, FALSE)
    \/ BLPopServe(TimedConsumer)

RoundTripSpec == Init /\ [][RoundTripNext]_vars

(***************************************************************************)
(* Properties of the queues.                                               *)
(***************************************************************************)
IDs(tasks) == [i \in DOMAIN tasks |-> tasks[i].ID]
QueuedIDs(k) == [i \in DOMAIN store[k].items |-> store[k].items[i].id]
Range(s) == {s[i] : i \in DOMAIN s}
SeqBag(s) == [x \in Range(s) |-> Cardinality({i \in DOMAIN s : s[i] = x})]

\* C1: on every queue the tasks come out of Dequeue in the order in which
\* Enqueue put them in: the i-th task returned is the i-th task enqueued,
\* and the tasks still queued are the later ones, in their order.
FIFOOrder ==
    \A k \in Keys :
        IDs(deqLog[k]) \o QueuedIDs(k) = IDs(enqLog[k])

\* two tasks were queued together and Dequeue has just returned the first
FIFOOrderWitness ==
    \E k \in Keys :
        /\ ret.op = "Dequeue" /\ ret.key = k /\ ~ret.isNil
        /\ Len(enqLog[k]) = 2 /\ Len(deqLog[k]) = 1 /\ Len(store[k].items) = 1

\* what a task is expected to come back as: an empty evaluator_types or payload
\* comes back nil, a payload number comes back a float64, and created_at comes
\* back without its monotonic clock reading
Normal(t) ==
    [t EXCEPT
        !.EvaluatorTypes = IF Len(@.items) = 0 THEN NilSlice ELSE @,
        !.Payload = IF @.entries = {} THEN NilMap
                    ELSE Map({[key |-> e.key,
                               val |-> IF e.val.kind = "int" THEN FloatVal(e.val.num)
                                       ELSE e.val] : e \in @.entries}),
        !.CreatedAt = Time(@.wall, FALSE)]

\* C2 as claimed: the task Dequeue returns is equal in every field to the task
\* that was enqueued (created_at compared as an instant, as time.Equal does).
RoundTripEqual ==
    \A k \in Keys : \A i \in DOMAIN deqLog[k] :
        /\ i \in DOMAIN enqLog[k]
        /\ [deqLog[k][i] EXCEPT !.CreatedAt = @.wall]
              = [enqLog[k][i] EXCEPT !.CreatedAt = @.wall]

\* C2 as amended: the task Dequeue returns has the id, type, conversation_id,
\* evaluator_types elements, payload entries and created_at instant of the
\* task that was enqueued; an empty evaluator_types or payload comes back nil,
\* a payload number as a float64, created_at without its monotonic reading.
RoundTripNormal ==
    \A k \in Keys : \A i \in DOMAIN deqLog[k] :
        i \in DOMAIN enqLog[k] /\ deqLog[k][i] = Normal(enqLog[k][i])

\* a task with an empty, non-nil evaluator_types, a payload and a monotonic
\* clock reading has been through the queue
RoundTripWitness ==
    /\ Len(deqLog["evaluations"]) = 1
    /\ enqLog["evaluations"][1].EvaluatorTypes = Slice(<<>>)
    /\ enqLog["evaluations"][1].Payload # NilMap
    /\ enqLog["evaluations"][1].CreatedAt.mono

\* C3: no task is lost or duplicated: on every queue the tasks whose Enqueue
\* returned nil are, as a multiset, the tasks Dequeue has returned together
\* with the tasks still in the queue.
NoLossNoDuplicate ==
    \A k \in Keys :
        SeqBag(IDs(enqLog[k])) = SeqBag(IDs(deqLog[k])) (+) SeqBag(QueuedIDs(k))

\* producers have filled a queue from which both consumers hold a task
NoLossNoDuplicateWitness ==
    \E k \in Keys :
        /\ Len(enqLog[k]) = 2 /\ Len(deqLog[k]) = 2
        /\ cons["w1"].st = "working" /\ cons["w2"].st = "working"

AllReturned == deqLog["evaluations"] \o deqLog["calibration"]
AllQueued == QueuedIDs("evaluations") \o QueuedIDs("calibration")

\* C4: a task is returned by at most one Dequeue call: no task has been
\* returned twice, to the same or to another consumer, and a task that has
\* been returned is in no queue, whether or not its consumer crashed.
AtMostOnce ==
    /\ \A i, j \in DOMAIN AllReturned :
          AllReturned[i].ID = AllReturned[j].ID => i = j
    /\ \A i \in DOMAIN AllReturned : AllReturned[i].ID \notin Range(AllQueued)

\* a consumer crashed with a task, and the other consumer has dequeued since
AtMostOnceWitness ==
    /\ lost # {}
    /\ \E c \in Consumers : cons[c].st = "working" /\ cons[c].task.ID \notin lost
    /\ \E k \in Keys : Len(deqLog[k]) = 2

\* some consumer calls Dequeue on queue k and reaches the server
Poll(k) == \E c \in Consumers : DequeueCall(c, k, 0, FALSE)
Enqueued(k, n) == TaskID(n) \in Range(IDs(enqLog[k]))
Returned(k, n) == TaskID(n) \in Range(IDs(deqLog[k]))
Held == {cons[c].task.ID : c \in {x \in Consumers : cons[x].st = "working"}}

\* C5 as claimed: at-least-once delivery: while consumers keep calling Dequeue
\* on a queue, every task enqueued onto it is eventually processed to the end
\* by a consumer, also when the consumer that dequeued it first crashes.
AtLeastOnce ==
    \A k \in Keys : \A n \in 1 .. MaxEnq :
        ([]<><<Poll(k)>>_vars) => (Enqueued(k, n) ~> TaskID(n) \in processed)

\* C5 as amended: at-most-once delivery: while consumers keep calling Dequeue
\* on a queue, every task enqueued onto it is eventually returned by Dequeue,
\* and a task whose consumer crashed before finishing it is lost: it is in no
\* queue, no consumer holds it and it is never processed.
DeliveredOnceOrLost ==
    /\ \A k \in Keys : \A n \in 1 .. MaxEnq :
          ([]<><<Poll(k)>>_vars) => (Enqueued(k, n) ~> Returned(k, n))
    /\ [](\A id \in lost :
            /\ id \notin processed
            /\ id \notin Held
            /\ id \notin Range(AllQueued))

\* a consumer crashed with a task while the other consumer finished its own
DeliveredOnceOrLostWitness ==
    /\ lost # {} /\ processed # {}
    /\ \A k \in Keys : store[k] = NoKey

(***************************************************************************)
(* Properties of Dequeue in time.                                          *)
(***************************************************************************)
\* C6: a Dequeue whose queue stayed empty until the server's timeout returns
\* (nil, nil); a failure of Redis or of the transport returns a nil task with
\* an error; and (nil, nil) is returned for nothing but the timeout.
TimeoutIsNoError ==
    ret.op = "Dequeue" =>
        /\ ret.reply = "redis.Nil" => ret.isNil /\ ret.err = ""
        /\ ret.reply \in {"transport", "wrongtype"} => ret.isNil /\ ret.err # ""
        /\ ret.isNil /\ ret.err = "" => ret.reply = "redis.Nil"

\* a Dequeue has timed out on an empty queue after waiting
TimeoutIsNoErrorWitness ==
    /\ ret.op = "Dequeue" /\ ret.reply = "redis.Nil" /\ ret.waited > 0
    /\ store[ret.key] = NoKey

WholeSeconds(dur) == dur > 0 /\ dur % TicksPerSecond = 0

Quiescent == \A c \in Consumers : cons[c].st # "blocked"

\* C8: with no Dequeue in flight, QueueLength of a queue returns the number of
\* tasks enqueued onto it less the number of tasks Dequeue has returned from
\* it, and the call leaves the queues and the blocked consumers as they were.
QueueLengthExact ==
    [][\A k \in Keys : \A fail \in BOOLEAN : QueueLength(k, fail) =>
          /\ store' = store /\ blocked' = blocked /\ cons' = cons
          /\ ~fail /\ Quiescent =>
                /\ ret'.err = ""
                /\ ret'.len = Len(enqLog[k]) - Len(deqLog[k])]_vars

\* QueueLength has returned 1 for a queue with two tasks enqueued and one returned
QueueLengthExactWitness ==
    /\ ret.op = "QueueLength" /\ ret.err = "" /\ ret.len = 1
    /\ Quiescent
    /\ Len(enqLog[ret.key]) = 2 /\ Len(deqLog[ret.key]) = 1

(***************************************************************************)
(* Properties of the cache.                                                *)
(***************************************************************************)
QueueItems(v) == IF v.kind = "list" THEN v.items ELSE <<>>
CacheEntry(v) == IF v.kind = "string" THEN v ELSE NoKey

CacheOp ==
    \/ \E k \in Keys, v \in CacheValues, ttl \in TTLs, fail \in BOOLEAN : Set(k, v, ttl, fail)
    \/ \E k \in Keys, d \in Dests, fail \in BOOLEAN : Get(k, d, fail)
    \/ \E k \in Keys, fail \in BOOLEAN : Delete(k, fail)

QueueOp ==
    \/ \E k \in Keys, t \in NewTasks, fail \in BOOLEAN : Enqueue(k, t, fail)
    \/ \E c \in Consumers, k \in Keys, fail \in BOOLEAN : DequeueCall(c, k, 0, fail)
    \/ \E c \in Consumers : BLPopServe(c)

QueueChanged(k) == QueueItems(store'[k]) # QueueItems(store[k])
EntryChanged(k) == CacheEntry(store'[k]) # CacheEntry(store[k])

\* C9 as claimed: Set, Get and Delete on any key, a queue's name included,
\* leave the contents and order of every queue unchanged, and Enqueue and
\* Dequeue leave every cache entry unchanged: no step that changes a queue is
\* a step of the cache, and no step that changes a cache entry is a step of a
\* queue.
CacheIndependent ==
    [][\A k \in Keys : /\ QueueChanged(k) => ~CacheOp
                       /\ EntryChanged(k) => ~QueueOp]_vars

\* C9 as amended: a step of the cache changes a queue only when it is a Set or
\* a Delete that succeeds on the queue's own key: the Set puts the cache entry
\* in the queue's place and the Delete removes the queue.  Every other queue,
\* and every queue under Get, is left as it was.  Enqueue and Dequeue leave
\* every cache entry unchanged.
CacheSharesKeys ==
    [][\A k \in Keys :
          /\ QueueChanged(k) /\ CacheOp =>
                /\ store[k].kind = "list"
                /\ \/ \E v \in CacheValues, ttl \in TTLs :
                         Set(k, v, ttl, FALSE) /\ store'[k] = StringKey(JSONValue(v), ttl)
                   \/ Delete(k, FALSE) /\ store'[k] = NoKey
          /\ EntryChanged(k) => ~QueueOp]_vars

\* a cache entry was set under another key while the queue held a task, and
\* the queue is as it was
CacheSharesKeysWitness ==
    /\ ret.op = "Set" /\ ret.err = ""
    /\ store["calibration"].kind = "string"
    /\ store["evaluations"].kind = "list"
    /\ ~clobbered["evaluations"]
    /\ IDs(deqLog["evaluations"]) \o QueuedIDs("evaluations") = IDs(enqLog["evaluations"])

MaxBatch == 2           \* conversations in one batch request

EvaluationsQueue == "evaluations"
DefaultEvaluators == <<"llm_judge", "tool_call", "coherence", "heuristic">>

ServerConvs == {"c1", "c2"}
\* evaluator_types of a trigger request: absent, empty, or the caller's own
RequestLists == {NilSlice, Slice(<<>>), Slice(<<"heuristic", "llm_judge">>)}
TriggerRequests ==
    [ConversationID : ServerConvs \cup {""}, EvaluatorTypes : RequestLists]

queueVars == <<store, blocked, cons, nextId, ret, enqLog, deqLog, processed, lost,
               clobbered, gone>>

\* c.JSON(status, body) in answer to the request input
Reply(op, status, body, input) ==
    [op |-> op, status |-> status, body |-> body, input |-> input,
     again |-> FALSE, before |-> <<>>]

\* the task a handler builds: uuid.New() is the n-th fresh id, time.Now()
NewTask(conv, ev, n) ==
    Task(TaskID(n), "evaluate", conv, ev, NilMap, Time(n, TRUE))

\* Repository.CreateConversation on database d: the INSERT fails on a
\* conversation_id that is there already; a failure to store the feedback
\* leaves the conversation inserted and returns the error
CreateConversation(d, id, dbRes) ==
    IF dbRes = "insert" \/ id \in d.convs THEN [err |-> "create", db |-> d]
    ELSE IF dbRes = "feedback"
    THEN [err |-> "feedback", db |-> [d EXCEPT !.convs = @ \cup {id}]]
    ELSE [err |-> "", db |-> [d EXCEPT !.convs = @ \cup {id}]]

(***************************************************************************)
(* Server.triggerEvaluation                                                *)
(***************************************************************************)
EvaluatorTypesIfNil(ev) == IF ev.null THEN Slice(DefaultEvaluators) ELSE ev
EvaluatorTypesOrDefault(ev) ==
    IF Len(ev.items) = 0 THEN Slice(DefaultEvaluators) ELSE ev

TriggerTaskOtherID(req, n) ==
    NewTask(req.ConversationID, EvaluatorTypesOrDefault(req.EvaluatorTypes), n + MaxEnq)
TriggerTask(req, n) ==
    NewTask(req.ConversationID, EvaluatorTypesOrDefault(req.EvaluatorTypes), n)

TriggerBody(e, id, conv, st) ==
    [error |-> e, task_id |-> id, conversation_id |-> conv, status |-> st]

TriggerReplyIgnoresErr(req, id, err) ==
    Reply("triggerEvaluation", 200,
            TriggerBody("", id, req.ConversationID, "queued"), req)
TriggerReply(req, id, err) ==
    IF err # ""
    THEN Reply("triggerEvaluation", 500,
                 TriggerBody("Failed to queue evaluation", "", "", ""), req)
    ELSE Reply("triggerEvaluation", 200,
                 TriggerBody("", id, req.ConversationID, "queued"), req)

triggerEvaluationUnchecked(req, dbErr, fail) ==
    LET task == TriggerTask(req, nextId) IN
    /\ Enqueue(EvaluationsQueue, task, fail)
    /\ resp' = TriggerReply(req, TaskID(nextId),
                            EnqueueErr(store[EvaluationsQueue], task, fail))
    /\ UNCHANGED <<db, cfg>>

triggerEvaluation(req, dbErr, fail) ==
    /\ IF req.ConversationID = ""
       THEN /\ resp' = Reply("triggerEvaluation", 400,
                               TriggerBody("binding", "", "", ""), req)
            /\ UNCHANGED queueVars
       ELSE IF dbErr
       THEN /\ resp' = Reply("triggerEvaluation", 500,
                               TriggerBody("database", "", "", ""), req)
            /\ UNCHANGED queueVars
       ELSE IF req.ConversationID \notin db.convs
       THEN /\ resp' = Reply("triggerEvaluation", 404,
                               TriggerBody("Conversation not found", "", "", ""), req)
            /\ UNCHANGED queueVars
       ELSE LET task == TriggerTask(req, nextId) IN
            /\ Enqueue(EvaluationsQueue, task, fail)
            /\ resp' = TriggerReply(req, TaskID(nextId),
                                    EnqueueErr(store[EvaluationsQueue], task, fail))
    /\ UNCHANGED <<db, cfg>>

(***************************************************************************)
(* Server.createConversation                                               *)
(***************************************************************************)
IngestBody(e, id) == [error |-> e, conversation_id |-> id]

\* the auto_evaluate parameter of the query string: absent, or given a value
NoQuery == [present |-> FALSE, value |-> ""]
Query(v) == [present |-> TRUE, value |-> v]
AutoEvaluateQueries == {NoQuery, Query("true"), Query("1")}

\* c.DefaultQuery(key, defaultValue)
DefaultQuery(q, defaultValue) == IF q.present THEN q.value ELSE defaultValue

AutoEvaluateParsesBool(auto) == DefaultQuery(auto, "true") \in {"true", "1"}
\* autoEvaluate := c.DefaultQuery("auto_evaluate", "true") == "true"
AutoEvaluate(auto) == DefaultQuery(auto, "true") = "true"

IngestReplyFailsOnErr(id, auto, err) ==
    IF err # ""
    THEN Reply("createConversation", 500, IngestBody(err, ""), <<id, auto>>)
    ELSE Reply("createConversation", 201, IngestBody("", id), <<id, auto>>)
\* the error of Enqueue is dropped
IngestReply(id, auto, err) ==
    Reply("createConversation", 201, IngestBody("", id), <<id, auto>>)

createConversation(id, auto, dbRes, fail) ==
    LET r == CreateConversation(db, id, dbRes)
        task == NewTask(id, Slice(DefaultEvaluators), nextId)
    IN  /\ db' = r.db
        /\ IF r.err # ""
           THEN /\ resp' = Reply("createConversation", 500, IngestBody(r.err, ""),
                                   <<id, auto>>)
                /\ UNCHANGED queueVars
           ELSE IF AutoEvaluate(auto)
           THEN /\ Enqueue(EvaluationsQueue, task, fail)
                /\ resp' = IngestReply(id, auto,
                                       EnqueueErr(store[EvaluationsQueue], task, fail))
           ELSE /\ resp' = IngestReply(id, auto, "")
                /\ UNCHANGED queueVars
        /\ UNCHANGED cfg

(***************************************************************************)
(* Server.batchCreateConversations: the loop over the conversations of     *)
(* the request, run on a record q of the variables it changes.             *)
(***************************************************************************)
\* s.queue.Enqueue("evaluations", t) within the loop
EnqueueOn(q, t, fail) ==
    LET err == EnqueueErr(q.store[EvaluationsQueue], t, fail) IN
    [q EXCEPT !.nextId = @ + 1,
              !.ret = Ret("Enqueue", "", err),
              !.store = IF err = ""
                        THEN [@ EXCEPT ![EvaluationsQueue] = RPush(@, Marshal(t))]
                        ELSE @,
              !.enqLog = IF err = ""
                         THEN [@ EXCEPT ![EvaluationsQueue] = Append(@, t)]
                         ELSE @]

RECURSIVE BatchLoop(_, _, _, _, _)
BatchLoop(q, convs, auto, dbRes, fails) ==
    IF convs = <<>> THEN q
    ELSE LET id == Head(convs)
             r == CreateConversation(q.db, id, Head(dbRes))
             stored == [q EXCEPT !.db = r.db, !.ids = Append(@, id)]
             after == IF r.err # "" THEN [q EXCEPT !.db = r.db]
                      ELSE IF AutoEvaluate(auto)
                      THEN EnqueueOn(stored, NewTask(id, Slice(DefaultEvaluators),
                                                     stored.nextId), Head(fails))
                      ELSE stored
         IN  BatchLoop(after, Tail(convs), auto, Tail(dbRes), Tail(fails))

BatchBody(ids) == [error |-> "", ingested |-> Len(ids), conversation_ids |-> ids]

batchCreateConversations(convs, auto, dbRes, fails) ==
    /\ ~ServePending
    /\ nextId + Len(convs) <= MaxEnq + 1
    /\ LET q == BatchLoop([db |-> db, store |-> store, enqLog |-> enqLog,
                           nextId |-> nextId, ret |-> ret, ids |-> <<>>],
                          convs, auto, dbRes, fails)
       IN  /\ db' = q.db
           /\ store' = q.store
           /\ enqLog' = q.enqLog
           /\ nextId' = q.nextId
           /\ ret' = q.ret
           /\ resp' = Reply("batchCreateConversations", 201, BatchBody(q.ids),
                              <<convs, auto>>)
    /\ UNCHANGED <<blocked, cons, deqLog, processed, lost, clobbered, gone, cfg>>

(***************************************************************************)
(* The server answering ingestion and trigger requests.                    *)
(***************************************************************************)
SeqsUpTo(S, n) == UNION {[1 .. m -> S] : m \in 0 .. n}

ServerNext ==
    \/ \E id \in ServerConvs, auto \in AutoEvaluateQueries,
          dbRes \in {"ok", "insert", "feedback"}, fail \in BOOLEAN :
          createConversation(id, auto, dbRes, fail)
    \/ \E convs \in SeqsUpTo(ServerConvs, MaxBatch), auto \in AutoEvaluateQueries :
          \E dbRes \in [DOMAIN convs -> {"ok", "insert"}],
             fails \in [DOMAIN convs -> BOOLEAN] :
             batchCreateConversations(convs, auto, dbRes, fails)
    \/ \E req \in TriggerRequests, dbErr \in BOOLEAN, fail \in BOOLEAN :
          triggerEvaluation(req, dbErr, fail)

ServerSpec == Init /\ [][ServerNext]_vars

(***************************************************************************)
(* Properties of dispatch.                                                 *)
(***************************************************************************)
Last(q) == q[Len(q)]

\* the step is a trigger request that called Enqueue
TriggerEnqueued == resp'.op = "triggerEvaluation" /\ nextId' # nextId

\* C11: the task a trigger request enqueues carries the default list llm_judge,
\* tool_call, coherence, heuristic when the request's evaluator_types is absent
\* or empty, and the request's own list, in its order, when it is not empty.
DefaultsWhenEmpty ==
    [][TriggerEnqueued /\ ret'.err = "" =>
          LET asked == resp'.input.EvaluatorTypes.items
              carried == IF asked = <<>> THEN DefaultEvaluators ELSE asked
          IN  /\ Last(store'[EvaluationsQueue].items).evaluator_types
                    = [present |-> TRUE, items |-> carried]
              /\ Last(enqLog'[EvaluationsQueue]).EvaluatorTypes = Slice(carried)]_vars

\* a request with an empty (not absent) list has enqueued the default list
DefaultsWhenEmptyWitness ==
    /\ resp.op = "triggerEvaluation" /\ resp.status = 200
    /\ resp.input.EvaluatorTypes = Slice(<<>>)
    /\ store[EvaluationsQueue].kind = "list"
    /\ Last(store[EvaluationsQueue].items).id = resp.body.task_id
    /\ Last(store[EvaluationsQueue].items).evaluator_types.items = DefaultEvaluators

\* C12: a trigger request answered with success has appended exactly one task
\* to the tail of "evaluations", of type "evaluate" and for the requested
\* conversation; the task_id in the answer is that task's id; and the ids of
\* the tasks dispatched so far are pairwise distinct.
DispatchAppendsOne ==
    [][resp'.op = "triggerEvaluation" /\ resp'.status = 200 /\ nextId' # nextId =>
          LET old == QueueItems(store[EvaluationsQueue])
              new == store'[EvaluationsQueue].items
              log == enqLog'[EvaluationsQueue]
          IN  /\ store'[EvaluationsQueue].kind = "list"
              /\ Len(new) = Len(old) + 1
              /\ SubSeq(new, 1, Len(old)) = old
              /\ Last(new).id = resp'.body.task_id
              /\ Last(new).type = "evaluate"
              /\ Last(new).conversation_id = resp'.input.ConversationID
              /\ resp'.body.conversation_id = resp'.input.ConversationID
              /\ \A k \in Keys \ {EvaluationsQueue} : store'[k] = store[k]
              /\ \A i, j \in DOMAIN log : i # j => log[i].ID # log[j].ID]_vars

\* a trigger request has put its task behind one that was queued already
DispatchAppendsOneWitness ==
    /\ resp.op = "triggerEvaluation" /\ resp.status = 200
    /\ store[EvaluationsQueue].kind = "list"
    /\ Len(store[EvaluationsQueue].items) = 2
    /\ store[EvaluationsQueue].items[2].id = resp.body.task_id
    /\ store[EvaluationsQueue].items[1].id # resp.body.task_id

\* C13: a trigger request whose Enqueue fails is answered with an error: the
\* answer has no status "queued" and no task_id, and nothing was enqueued; and
\* a task_id in an answer is always the id of a task that was enqueued.
TriggerFailureIsError ==
    [][/\ TriggerEnqueued /\ ret'.err # "" =>
             /\ resp'.status >= 400
             /\ resp'.body.status # "queued"
             /\ resp'.body.task_id = ""
             /\ store' = store /\ enqLog' = enqLog
       /\ resp'.op = "triggerEvaluation" /\ resp'.body.task_id # "" =>
             \E i \in DOMAIN enqLog'[EvaluationsQueue] :
                enqLog'[EvaluationsQueue][i].ID = resp'.body.task_id]_vars

\* a trigger request for a stored conversation was refused because Enqueue failed
TriggerFailureIsErrorWitness ==
    /\ resp.op = "triggerEvaluation" /\ resp.status = 500
    /\ resp.body.error = "Failed to queue evaluation"
    /\ resp.input.ConversationID \in db.convs
    /\ ret.op = "Enqueue" /\ ret.err = "transport"

Distinct(q) == \A i, j \in DOMAIN q : i # j => q[i] # q[j]

\* C14: an ingestion request whose conversations are stored is answered with
\* the same success whether its Enqueue calls succeed or fail: the single
\* request with 201 and the conversation, the batch request with 201 and all
\* its conversations counted and listed; and the conversations are stored.
IngestionIgnoresDispatch ==
    [][/\ resp'.op = "createConversation" =>
             LET id == resp'.input[1]
                 auto == resp'.input[2]
             IN  \A fail \in BOOLEAN :
                    id \notin db.convs /\ createConversation(id, auto, "ok", fail) =>
                       /\ resp'.status = 201
                       /\ resp'.body = IngestBody("", id)
                       /\ id \in db'.convs
       /\ resp'.op = "batchCreateConversations" =>
             LET convs == resp'.input[1]
                 auto == resp'.input[2]
             IN  \A fails \in [DOMAIN convs -> BOOLEAN] :
                    /\ Distinct(convs)
                    /\ \A i \in DOMAIN convs : convs[i] \notin db.convs
                    /\ batchCreateConversations(convs, auto,
                                                [i \in DOMAIN convs |-> "ok"], fails)
                    => /\ resp'.status = 201
                       /\ resp'.body = BatchBody(convs)
                       /\ \A i \in DOMAIN convs : convs[i] \in db'.convs]_vars

\* a batch of two conversations was ingested while an Enqueue failed
IngestionIgnoresDispatchWitness ==
    /\ resp.op = "batchCreateConversations" /\ resp.status = 201
    /\ resp.body.ingested = 2
    /\ resp.body.conversation_ids = <<"c2", "c1">>
    /\ db.convs = {"c1", "c2"}
    /\ ret.op = "Enqueue" /\ ret.err # ""
    /\ Len(enqLog[EvaluationsQueue]) < 2

(***************************************************************************)
(* Server.getAnnotatorAgreement and the annotations it reads.              *)
(*                                                                         *)
(* A float64 is the ratio of two integers; Rat(0, 0) is NaN.  The order in *)
(* which "range" visits the keys of a Go map is not specified: the handler *)
(* may visit the labels in any order.                                      *)
(***************************************************************************)
MaxAnnotations == 3     \* annotations stored for the conversation

Labels == {"good", "bad"}
Annotators == {"a1", "a2"}
StoredTypes == {"quality"}
QueriedTypes == {"", "quality", "tool_accuracy"}
NaN == Rat(0, 0)
\* ANNOTATOR_AGREEMENT_THRESHOLD: any float64 that strconv.ParseFloat accepts
Thresholds == {Rat(0, 1), Rat(1, 2), Rat(2, 3), DefaultThreshold, Rat(1, 1),
               Rat(3, 2), NaN}

Annotation(who, ty, label) ==
    [AnnotatorID |-> who, AnnotationType |-> ty, Label |-> label]

\* a < b on float64: false when either is NaN
Less(a, b) == a.den # 0 /\ b.den # 0 /\ a.num * b.den < b.num * a.den

Reverse(q) == [i \in DOMAIN q |-> q[Len(q) + 1 - i]]

\* Repository.GetAnnotationsForConversation: the rows of the annotation type,
\* newest first
GetAnnotationsForConversation(d, ty) ==
    Reverse(SelectSeq(d.annotations, LAMBDA a : a.AnnotationType = ty))

\* c.JSON(status, body) of a computation; again tells that the request
\* answered before was the same computation on the same input, and before is
\* what it was answered
Respond(op, status, body, input) ==
    [op |-> op, status |-> status, body |-> body, input |-> input,
     again |-> resp.op = op /\ resp.status = status /\ resp.input = input,
     before |-> IF resp.op = op /\ resp.status = status /\ resp.input = input
                THEN resp.body ELSE <<>>]

\* labelCounts after the first loop
LabelCounts(anns) ==
    [l \in {anns[i].Label : i \in DOMAIN anns} |->
        Cardinality({i \in DOMAIN anns : anns[i].Label = l})]

\* the orders in which range may visit the keys of the map
RangeOrders(counts) ==
    {o \in [1 .. Cardinality(DOMAIN counts) -> DOMAIN counts] :
        \A i, j \in DOMAIN o : i # j => o[i] # o[j]}

\* the second loop, visiting the labels in the given order
RECURSIVE MajorityLoop(_, _, _)
MajorityLoop(counts, order, best) ==
    IF order = <<>> THEN best
    ELSE LET label == Head(order) IN
         MajorityLoop(counts, Tail(order),
                      IF counts[label] > best.maxCount
                      THEN [majorityLabel |-> label, maxCount |-> counts[label]]
                      ELSE best)

AgreementScoreIntDiv(maxCount, n) ==
    IF n > 1 THEN Rat(maxCount \div n, 1) ELSE Rat(1, 1)
AgreementScoreUnguarded(maxCount, n) == Rat(maxCount, n)
AgreementScore(maxCount, n) == IF n > 1 THEN Rat(maxCount, n) ELSE Rat(1, 1)

NeedsTiebreakerAtOrBelow(score, threshold) == ~Less(threshold, score)
NeedsTiebreaker(score, threshold) == Less(score, threshold)

AgreementBody(e, who, score, label, needs, anns) ==
    [error |-> e, annotators |-> who, agreement_score |-> score,
     majority_label |-> label, needs_tiebreaker |-> needs,
     individual_annotations |-> anns]

Agreement(anns, order, threshold) ==
    LET best == MajorityLoop(LabelCounts(anns), order,
                             [majorityLabel |-> "", maxCount |-> 0])
        score == AgreementScore(best.maxCount, Len(anns))
    IN  AgreementBody("", [i \in DOMAIN anns |-> anns[i].AnnotatorID], score,
                      best.majorityLabel, NeedsTiebreaker(score, threshold), anns)

getAnnotatorAgreement(ty, dbErr) ==
    /\ IF ty = ""
       THEN resp' = Reply("getAnnotatorAgreement", 400,
                          AgreementBody("annotation_type is required", <<>>, NaN, "",
                                        FALSE, <<>>), <<ty>>)
       ELSE IF dbErr
       THEN resp' = Reply("getAnnotatorAgreement", 500,
                          AgreementBody("database", <<>>, NaN, "", FALSE, <<>>), <<ty>>)
       ELSE LET anns == GetAnnotationsForConversation(db, ty)
                threshold == cfg.AnnotatorAgreementThreshold
            IN  \E order \in RangeOrders(LabelCounts(anns)) :
                   resp' = Respond("getAnnotatorAgreement", 200,
                                   Agreement(anns, order, threshold),
                                   <<ty, anns, threshold>>)
    /\ UNCHANGED <<db, cfg>>
    /\ UNCHANGED queueVars

(***************************************************************************)
(* Server.createAnnotation                                                 *)
(***************************************************************************)
createAnnotation(ann, dbErr) ==
    /\ Len(db.annotations) < MaxAnnotations
    /\ IF dbErr
       THEN /\ resp' = Reply("createAnnotation", 500, [error |-> "database"], ann)
            /\ UNCHANGED db
       ELSE /\ resp' = Reply("createAnnotation", 201, [error |-> ""], ann)
            /\ db' = [db EXCEPT !.annotations = Append(@, ann)]
    /\ UNCHANGED cfg
    /\ UNCHANGED queueVars

\* the server started with any threshold, storing annotations and computing
\* the agreement
AgreementInit ==
    \E threshold \in Thresholds : StartWith([AnnotatorAgreementThreshold |-> threshold])

AgreementNext ==
    \/ \E who \in Annotators, ty \in StoredTypes, label \in Labels, dbErr \in BOOLEAN :
          createAnnotation(Annotation(who, ty, label), dbErr)
    \/ \E ty \in QueriedTypes, dbErr \in BOOLEAN : getAnnotatorAgreement(ty, dbErr)

AgreementSpec == AgreementInit /\ [][AgreementNext]_vars

(***************************************************************************)
(* Properties of the agreement computation.                                *)
(***************************************************************************)
\* the last request answered was an agreement computed over annotations
Agreed == resp.op = "getAnnotatorAgreement" /\ resp.status = 200
AgreedOn == resp.input[2]
AgreedThreshold == resp.input[3]

CountOf(anns, label) == Cardinality({i \in DOMAIN anns : anns[i].Label = label})
HighestCount(anns, label) ==
    \A i \in DOMAIN anns : CountOf(anns, anns[i].Label) <= CountOf(anns, label)
\* the first annotation, in the order of the input, whose label has the highest count
FirstHighest(anns) ==
    anns[CHOOSE i \in DOMAIN anns :
            /\ HighestCount(anns, anns[i].Label)
            /\ \A j \in 1 .. i - 1 : ~HighestCount(anns, anns[j].Label)].Label

\* C15: over a non-empty annotation sequence majority_label is a label with
\* the highest count, and of several labels with the highest count it is the
\* one that comes first in the order of the annotations.
MajorityFirstOnTie ==
    Agreed /\ AgreedOn # <<>> =>
        /\ HighestCount(AgreedOn, resp.body.majority_label)
        /\ resp.body.majority_label = FirstHighest(AgreedOn)

\* C16: over more than one annotation agreement_score is the count of
\* majority_label divided by the number of annotations, which is above 0 and
\* at most 1; over one annotation it is 1.0 and majority_label is its label.
ScoreIsMajorityShare ==
    Agreed =>
        LET n == Len(AgreedOn)
            score == resp.body.agreement_score
            count == CountOf(AgreedOn, resp.body.majority_label)
        IN  /\ n > 1 =>
                  /\ score.den > 0
                  /\ score.num * n = count * score.den
                  /\ 0 < score.num /\ score.num <= score.den
            /\ n = 1 =>
                  /\ score = Rat(1, 1)
                  /\ resp.body.majority_label = AgreedOn[1].Label

\* two of three annotations share the majority label: the score is 2/3
ScoreIsMajorityShareWitness ==
    /\ Agreed /\ Len(AgreedOn) = 3
    /\ resp.body.agreement_score = Rat(2, 3)
    /\ CountOf(AgreedOn, resp.body.majority_label) = 2

\* C17: needs_tiebreaker is true exactly when agreement_score is strictly
\* below the threshold; the labels good, good, bad with threshold 0.8 give
\* majority "good", agreement 2/3 and needs_tiebreaker true.
TiebreakerBelowThreshold ==
    Agreed =>
        LET score == resp.body.agreement_score
            threshold == AgreedThreshold
        IN  /\ resp.body.needs_tiebreaker <=>
                  /\ threshold # NaN
                  /\ score.num * threshold.den < threshold.num * score.den
            /\ /\ [i \in DOMAIN AgreedOn |-> AgreedOn[i].Label] = <<"good", "good", "bad">>
               /\ threshold = Rat(4, 5)
               => /\ resp.body.majority_label = "good"
                  /\ score = Rat(2, 3)
                  /\ resp.body.needs_tiebreaker

\* good, good, bad with threshold 0.8 was computed, tiebreaker needed
TiebreakerBelowThresholdWitness ==
    /\ Agreed
    /\ [i \in DOMAIN AgreedOn |-> AgreedOn[i].Label] = <<"good", "good", "bad">>
    /\ AgreedThreshold = Rat(4, 5)
    /\ resp.body.needs_tiebreaker

\* C18 as claimed: with no annotation of the type, majority_label is "",
\* agreement_score is 1.0, needs_tiebreaker is false and annotators is empty,
\* for every threshold.
NothingToDisagree ==
    Agreed /\ AgreedOn = <<>> =>
        /\ resp.body.majority_label = ""
        /\ resp.body.agreement_score = Rat(1, 1)
        /\ ~resp.body.needs_tiebreaker
        /\ resp.body.annotators = <<>>

\* C18 as amended: with no annotation of the type, majority_label is "",
\* agreement_score is 1.0 and annotators is empty; needs_tiebreaker is false
\* for a threshold of at most 1.0 (and for NaN) and true for a threshold
\* above 1.0.
NothingToDisagreeUpToOne ==
    Agreed /\ AgreedOn = <<>> =>
        /\ resp.body.majority_label = ""
        /\ resp.body.agreement_score = Rat(1, 1)
        /\ resp.body.annotators = <<>>
        /\ resp.body.needs_tiebreaker <=>
              /\ AgreedThreshold # NaN
              /\ AgreedThreshold.num > AgreedThreshold.den

\* annotations are stored, none of the type asked for, threshold 0.8
NothingToDisagreeUpToOneWitness ==
    /\ Agreed /\ AgreedOn = <<>>
    /\ db.annotations # <<>>
    /\ AgreedThreshold = DefaultThreshold
    /\ ~resp.body.needs_tiebreaker

\* C19: two agreement computations over the same annotation sequence and
\* threshold give the same output in every field.
AgreementDeterministic ==
    Agreed /\ resp.again => resp.body = resp.before

(***************************************************************************)
(* Server.getRoutingDecision and the evaluations it reads.                 *)
(***************************************************************************)
Issue(ty, sev) == [Type |-> ty, Severity |-> sev]
\* the issues of an evaluation: none, one of each kind, two that map to
\* different annotation types in either order, and two that map to the same
IssueLists ==
    {<<>>,
     <<Issue("tool", "critical")>>,
     <<Issue("context_loss", "low")>>,
     <<Issue("latency", "medium")>>,
     <<Issue("tool", "critical"), Issue("context_loss", "low")>>,
     <<Issue("context_loss", "low"), Issue("tool", "critical")>>,
     <<Issue("tool", "critical"), Issue("tool_execution_failure", "critical")>>}
\* Evaluation.IssuesDetected, a json.RawMessage: an array of issues, or a
\* text that is no array of issues
IssuesJSON ==
    {[ok |-> TRUE, issues |-> q] : q \in IssueLists}
        \cup {[ok |-> FALSE, issues |-> <<>>]}
LowScore == Rat(2, 5)
Scores == {Rat(3, 10), LowScore, Rat(1, 2)}
\* the evaluation_id of the n-th evaluation the evaluator stores
EvaluationIDs == <<"e1", "e2">>

\* created_at, DEFAULT CURRENT_TIMESTAMP: the clock of the database at the
\* INSERT, which two rows may share and which need not follow the order of the
\* writes
Times == {1, 2}

Evaluation(id, conv, score, raw, at) ==
    [EvaluationID |-> id, ConversationID |-> conv, OverallScore |-> score,
     IssuesDetected |-> raw, CreatedAt |-> at]

\* Repository.CreateEvaluation, called by the evaluator: the INSERT needs the
\* conversation to be stored
CreateEvaluation(conv, score, raw, at, dbErr) ==
    /\ Len(db.evaluations) < Len(EvaluationIDs)
    /\ db' = IF dbErr \/ conv \notin db.convs THEN db
             ELSE [db EXCEPT !.evaluations =
                      Append(@, Evaluation(EvaluationIDs[Len(@) + 1], conv, score,
                                           raw, at))]
    /\ UNCHANGED <<cfg, resp>>
    /\ UNCHANGED queueVars

\* WHERE conversation_id = $1: the rows of the conversation, in the order they
\* were written
EvaluationsOf(d, conv) ==
    SelectSeq(d.evaluations, LAMBDA e : e.ConversationID = conv)

LastWritten(d, conv) ==
    IF EvaluationsOf(d, conv) = <<>> THEN {}
    ELSE {EvaluationsOf(d, conv)[Len(EvaluationsOf(d, conv))]}
\* Repository.GetLatestEvaluationForConversation, ORDER BY created_at DESC
\* LIMIT 1: a row of the conversation that no other row of it is newer than;
\* no row is sql.ErrNoRows
GetLatestEvaluationForConversation(d, conv) ==
    LET rows == EvaluationsOf(d, conv) IN
    {rows[i] : i \in {j \in DOMAIN rows :
                         \A k \in DOMAIN rows : rows[k].CreatedAt <= rows[j].CreatedAt}}

\* json.Unmarshal(eval.IssuesDetected, &issues), its error dropped
ParseIssues(raw) == IF raw.ok THEN raw.issues ELSE <<>>

Reorderings(q) ==
    {[i \in DOMAIN q |-> q[p[i]]] :
        p \in {f \in [DOMAIN q -> DOMAIN q] : \A i, j \in DOMAIN q : i # j => f[i] # f[j]}}
IssueOrdersAny(issues) == Reorderings(issues)
\* range over a slice visits the issues in their order
IssueOrders(issues) == {issues}

CriticalOrHighCount(issues) ==
    Cardinality({i \in DOMAIN issues : issues[i].Severity \in {"critical", "high"}})
CriticalCount(issues) ==
    Cardinality({i \in DOMAIN issues : issues[i].Severity = "critical"})

RoutingReasonPerIssue(score, issues) ==
    (IF Less(score, LowScore) THEN <<"Low quality score">> ELSE <<>>)
        \o [i \in 1 .. CriticalCount(issues) |-> "Critical issues detected"]
RoutingReason(score, issues) ==
    (IF Less(score, LowScore) THEN <<"Low quality score">> ELSE <<>>)
        \o (IF CriticalCount(issues) > 0 THEN <<"Critical issues detected">> ELSE <<>>)

RECURSIVE SuggestedTypesToolOnly(_, _)
SuggestedTypesToolOnly(issues, types) ==
    IF issues = <<>> THEN types
    ELSE LET issue == Head(issues)
             t1 == IF issue.Type = "tool"
                   THEN Append(types, "tool_accuracy") ELSE types
             t2 == IF issue.Type \in {"context_loss", "coherence"}
                   THEN Append(t1, "coherence") ELSE t1
         IN  SuggestedTypesToolOnly(Tail(issues), t2)

RECURSIVE SuggestedTypes(_, _)
SuggestedTypes(issues, types) ==
    IF issues = <<>> THEN types
    ELSE LET issue == Head(issues)
             t1 == IF issue.Type \in {"tool", "tool_execution_failure"}
                   THEN Append(types, "tool_accuracy") ELSE types
             t2 == IF issue.Type \in {"context_loss", "coherence"}
                   THEN Append(t1, "coherence") ELSE t1
         IN  SuggestedTypes(Tail(issues), t2)

RoutingBody(e, conv, review, priority, reason, auto, types) ==
    [error |-> e, conversation_id |-> conv, needs_human_review |-> review,
     priority |-> priority, routing_reason |-> reason, auto_label |-> auto,
     suggested_annotation_types |-> types]

RoutingDecisionEscalates(conv, eval, issues) ==
    LET low == Less(eval.OverallScore, LowScore)
        critical == CriticalCount(issues) > 0
    IN  RoutingBody("", conv, low \/ critical,
                    IF low /\ critical THEN "urgent"
                    ELSE IF low \/ critical THEN "high" ELSE "low",
                    RoutingReason(eval.OverallScore, issues), ~(low \/ critical),
                    SuggestedTypes(issues, <<"general_quality">>))
RoutingDecision(conv, eval, issues) ==
    LET needsReview == Less(eval.OverallScore, LowScore) \/ CriticalCount(issues) > 0
    IN  RoutingBody("", conv, needsReview, IF needsReview THEN "high" ELSE "low",
                    RoutingReason(eval.OverallScore, issues), ~needsReview,
                    SuggestedTypes(issues, <<"general_quality">>))

NoRouting(e) == RoutingBody(e, "", FALSE, "", <<>>, FALSE, <<>>)

getRoutingDecisionCaches(conv, dbErr) ==
    /\ IF dbErr
       THEN resp' = Reply("getRoutingDecision", 500, NoRouting("database"), <<conv>>)
       ELSE IF GetLatestEvaluationForConversation(db, conv) = {}
       THEN resp' = Reply("getRoutingDecision", 404,
                          NoRouting("No evaluation found for conversation"), <<conv>>)
       ELSE \E eval \in GetLatestEvaluationForConversation(db, conv) :
               resp' = Respond("getRoutingDecision", 200,
                               RoutingDecision(conv, eval, ParseIssues(eval.IssuesDetected)),
                               <<conv, eval>>)
    /\ store' = [store EXCEPT !["calibration"] = SetKey(@, JSONValue(IntVal(1)), 0)]
    /\ UNCHANGED <<db, cfg>>
    /\ UNCHANGED <<blocked, cons, nextId, ret, enqLog, deqLog, processed, lost,
                   clobbered, gone>>

getRoutingDecision(conv, dbErr) ==
    /\ IF dbErr
       THEN resp' = Reply("getRoutingDecision", 500, NoRouting("database"), <<conv>>)
       ELSE IF GetLatestEvaluationForConversation(db, conv) = {}
       THEN resp' = Reply("getRoutingDecision", 404,
                          NoRouting("No evaluation found for conversation"), <<conv>>)
       ELSE \E eval \in GetLatestEvaluationForConversation(db, conv) :
            \E issues \in IssueOrders(ParseIssues(eval.IssuesDetected)) :
               resp' = Respond("getRoutingDecision", 200,
                               RoutingDecision(conv, eval, issues), <<conv, eval>>)
    /\ UNCHANGED <<db, cfg>>
    /\ UNCHANGED queueVars

\* conversations are ingested without dispatch, the evaluator stores
\* evaluations of them, and routing decisions are asked for
RoutingNext ==
    \/ \E id \in ServerConvs : createConversation(id, Query("false"), "ok", FALSE)
    \/ \E conv \in ServerConvs, score \in Scores, raw \in IssuesJSON, at \in Times,
          dbErr \in BOOLEAN :
          CreateEvaluation(conv, score, raw, at, dbErr)
    \/ \E conv \in ServerConvs, dbErr \in BOOLEAN : getRoutingDecision(conv, dbErr)

RoutingSpec == Init /\ [][RoutingNext]_vars

(***************************************************************************)
(* The routing decision as a function of the latest evaluation: the server *)
(* is started on a database that holds one evaluation of conversation c1,  *)
(* with any score and any issues.                                          *)
(***************************************************************************)
MaxIssues == 2          \* issues of the stored evaluation

IssueTypes == {"tool", "tool_execution_failure", "context_loss", "coherence", "latency"}
Severities == {"low", "medium", "high", "critical"}
AllIssues == {Issue(ty, sev) : ty \in IssueTypes, sev \in Severities}
\* overall_score FLOAT: below, at and above 0.4, and NaN
DecisionScores == Scores \cup {Rat(9, 10), NaN}
DecisionIssuesJSON ==
    {[ok |-> TRUE, issues |-> q] : q \in SeqsUpTo(AllIssues, MaxIssues)}
        \cup {[ok |-> FALSE, issues |-> <<>>]}

DecisionInit ==
    \E score \in DecisionScores, raw \in DecisionIssuesJSON :
       Started([AnnotatorAgreementThreshold |-> DefaultThreshold],
               [convs |-> {"c1"}, annotations |-> <<>>,
                evaluations |-> <<Evaluation(EvaluationIDs[1], "c1", score, raw, 1)>>])

DecisionNext ==
    \E conv \in ServerConvs, dbErr \in BOOLEAN : getRoutingDecision(conv, dbErr)

DecisionSpec == DecisionInit /\ [][DecisionNext]_vars

(***************************************************************************)
(* The two computations next to everything they could touch: conversations *)
(* are ingested and dispatched onto the queue, the cache is written,       *)
(* annotations and evaluations are stored, and routing decisions and       *)
(* agreement results are asked for.                                        *)
(***************************************************************************)
ReadNext ==
    \/ \E id \in ServerConvs : createConversation(id, NoQuery, "ok", FALSE)
    \/ Set("calibration", IntVal(1), 0, FALSE)
    \/ \E label \in Labels : createAnnotation(Annotation("a1", "quality", label), FALSE)
    \/ \E conv \in ServerConvs, at \in Times :
          CreateEvaluation(conv, LowScore,
                           [ok |-> TRUE, issues |-> <<Issue("tool", "critical")>>],
                           at, FALSE)
    \/ \E conv \in ServerConvs, dbErr \in BOOLEAN : getRoutingDecision(conv, dbErr)
    \/ \E ty \in QueriedTypes, dbErr \in BOOLEAN : getAnnotatorAgreement(ty, dbErr)

ReadSpec == Init /\ [][ReadNext]_vars

(***************************************************************************)
(* A consumer of a queue that holds entries when the program starts: tasks *)
(* of an earlier run, and entries that are no serialization of a Task.     *)
(***************************************************************************)
StoredEntries ==
    {Garbage, NullText, ArrayText,
     Marshal(Task("t0", "evaluate", "c1", NilSlice, NilMap, Time(0, TRUE)))}

EntriesInit ==
    \E q \in SeqsUpTo(StoredEntries, MaxEnq) \ {<<>>} :
       StartedOn([AnnotatorAgreementThreshold |-> DefaultThreshold],
                 [convs |-> {}, annotations |-> <<>>, evaluations |-> <<>>],
                 [k \in Keys |-> IF k = EvaluationsQueue THEN ListKey(q) ELSE NoKey])

EntriesNext ==
    \/ \E t \in NewTasks, fail \in BOOLEAN :
          Enqueue(EvaluationsQueue, t, fail) /\ UNCHANGED server
    \/ \E fail \in BOOLEAN : DequeueCall(TimedConsumer, EvaluationsQueue, 0, fail)
    \/ BLPopServe(TimedConsumer)
    \/ Finish(TimedConsumer)

EntriesSpec == EntriesInit /\ [][EntriesNext]_vars

(***************************************************************************)
(* The lookups of the trigger and routing requests: conversations are      *)
(* ingested without dispatch, evaluations of them are stored, evaluations  *)
(* are triggered and routing decisions are asked for.                      *)
(***************************************************************************)
LookupNext ==
    \/ \E id \in ServerConvs : createConversation(id, Query("false"), "ok", FALSE)
    \/ \E conv \in ServerConvs, at \in Times :
          CreateEvaluation(conv, LowScore, [ok |-> TRUE, issues |-> <<>>], at, FALSE)
    \/ \E conv \in ServerConvs \cup {""}, dbErr \in BOOLEAN, fail \in BOOLEAN :
          triggerEvaluation([ConversationID |-> conv, EvaluatorTypes |-> NilSlice],
                            dbErr, fail)
    \/ \E conv \in ServerConvs, dbErr \in BOOLEAN : getRoutingDecision(conv, dbErr)

LookupSpec == Init /\ [][LookupNext]_vars

(***************************************************************************)
(* Properties of the routing computation.                                  *)
(***************************************************************************)
Routed == resp.op = "getRoutingDecision" /\ resp.status = 200

RoutedEval == resp.input[2]
RoutedIssues == ParseIssues(RoutedEval.IssuesDetected)
SomeIssue(P(_)) == \E i \in DOMAIN RoutedIssues : P(RoutedIssues[i])
IsCritical(issue) == issue.Severity = "critical"

\* C21: needs_human_review is true exactly when overall_score is strictly
\* below 0.4 or some issue has severity "critical"; a score of exactly 0.4
\* with issues of severity low, medium or high only does not need review.
ReviewWhenLowOrCritical ==
    Routed =>
        LET score == RoutedEval.OverallScore IN
        /\ resp.body.needs_human_review <=>
              \/ score.den # 0 /\ 5 * score.num < 2 * score.den
              \/ SomeIssue(IsCritical)
        /\ score = Rat(2, 5) /\ ~SomeIssue(IsCritical) => ~resp.body.needs_human_review

\* a score of exactly 0.4 with an issue of severity high: no review
ReviewWhenLowOrCriticalWitness ==
    /\ Routed
    /\ RoutedEval.OverallScore = Rat(2, 5)
    /\ SomeIssue(LAMBDA issue : issue.Severity = "high")
    /\ ~resp.body.needs_human_review

\* C22: priority is "high" when needs_human_review is true and "low"
\* otherwise, auto_label is the negation of needs_human_review, and
\* routing_reason is empty exactly when needs_human_review is false.
DecisionConsistent ==
    Routed =>
        /\ resp.body.priority = IF resp.body.needs_human_review THEN "high" ELSE "low"
        /\ resp.body.auto_label = ~resp.body.needs_human_review
        /\ resp.body.routing_reason = <<>> <=> ~resp.body.needs_human_review

\* both rules fired, a low score and a critical issue: the priority is "high"
DecisionConsistentWitness ==
    /\ Routed
    /\ Less(RoutedEval.OverallScore, LowScore)
    /\ SomeIssue(IsCritical)
    /\ resp.body.priority = "high"
    /\ ~resp.body.auto_label

Suggested == Range(resp.body.suggested_annotation_types)

\* C23: suggested_annotation_types contains "general_quality"; it contains
\* "tool_accuracy" exactly when some issue has type "tool" or
\* "tool_execution_failure", whatever its severity; it contains "coherence"
\* exactly when some issue has type "context_loss" or "coherence"; it
\* contains no other value.
SuggestedByIssueType ==
    Routed =>
        /\ "general_quality" \in Suggested
        /\ "tool_accuracy" \in Suggested <=>
              SomeIssue(LAMBDA issue : issue.Type \in {"tool", "tool_execution_failure"})
        /\ "coherence" \in Suggested <=>
              SomeIssue(LAMBDA issue : issue.Type \in {"context_loss", "coherence"})
        /\ Suggested \subseteq {"general_quality", "tool_accuracy", "coherence"}

\* one issue, of type tool_execution_failure and severity low
SuggestedByIssueTypeWitness ==
    /\ Routed
    /\ RoutedIssues = <<Issue("tool_execution_failure", "low")>>
    /\ Suggested = {"general_quality", "tool_accuracy"}

\* C24: suggested_annotation_types is a set: each annotation type appears in
\* it at most once, also when several issues map to the same annotation type.
SuggestedTypesUnique ==
    Routed => Distinct(resp.body.suggested_annotation_types)

\* C28: routing_reason holds the reasons of the rules that fired, each once
\* and in rule order: "Low quality score" when overall_score < 0.4, then
\* "Critical issues detected" when some issue is critical, once however many
\* critical issues there are.
ReasonsInRuleOrder ==
    Routed =>
        LET score == RoutedEval.OverallScore
            low == score.den # 0 /\ 5 * score.num < 2 * score.den
        IN  resp.body.routing_reason =
                (IF low THEN <<"Low quality score">> ELSE <<>>)
                    \o (IF SomeIssue(IsCritical)
                        THEN <<"Critical issues detected">> ELSE <<>>)

\* a low score and two critical issues: two reasons, in rule order
ReasonsInRuleOrderWitness ==
    /\ Routed
    /\ Len(RoutedIssues) = 2
    /\ \A i \in DOMAIN RoutedIssues : IsCritical(RoutedIssues[i])
    /\ resp.body.routing_reason = <<"Low quality score", "Critical issues detected">>

\* C26: a routing decision for a conversation is computed from an evaluation
\* stored for that conversation whose created_at no other evaluation stored
\* for it at the time of the request exceeds, in whatever order the
\* evaluations were written; evaluations of other conversations play no part.
LatestDecides ==
    [][resp' # resp /\ Routed' =>
          LET conv == resp'.input[1]
              eval == resp'.input[2]
              rows == db.evaluations
          IN  /\ \E i \in DOMAIN rows : rows[i] = eval
              /\ eval.ConversationID = conv
              /\ \A i \in DOMAIN rows :
                    rows[i].ConversationID = conv => rows[i].CreatedAt <= eval.CreatedAt
              /\ resp'.body =
                    RoutingDecision(conv, eval, ParseIssues(eval.IssuesDetected))]_vars

\* the evaluation written first is the newer of the two of the conversation,
\* and the decision was computed from it
LatestDecidesWitness ==
    /\ Routed
    /\ Len(db.evaluations) = 2
    /\ db.evaluations[1].ConversationID = db.evaluations[2].ConversationID
    /\ db.evaluations[1].CreatedAt > db.evaluations[2].CreatedAt
    /\ db.evaluations[1].OverallScore # db.evaluations[2].OverallScore
    /\ RoutedEval = db.evaluations[1]

\* C25: a routing or agreement request changes no state: the stored
\* conversations, evaluations and annotations, every queue and every cache
\* entry, the blocked consumers and the configuration are after the request
\* what they were before it; the request leaves nothing behind but its answer.
ComputationsChangeNothing ==
    [][/\ resp' # resp
       /\ resp'.op \in {"getRoutingDecision", "getAnnotatorAgreement"}
       => UNCHANGED <<store, blocked, cons, db, cfg>>]_vars

\* a decision was computed while a task is queued, a cache entry is set and
\* an annotation is stored
ComputationsChangeNothingWitness ==
    /\ Routed
    /\ store["evaluations"].kind = "list"
    /\ store["calibration"].kind = "string"
    /\ db.annotations # <<>>
    /\ db.evaluations # <<>>

\* a text that json.Marshal gives for a Task
IsTaskText(d) == d.kind = "object"

\* C27: when the entry at the head of a queue is no serialization of a Task,
\* the Dequeue that takes it returns a non-nil error: it returns neither a
\* task nor the no-task outcome (nil, nil).
MalformedIsError ==
    [][\A k \in Keys :
          /\ store[k].kind = "list"
          /\ store'[k] = LPop(store[k])
          /\ ~IsTaskText(LPopHead(store[k]))
          => /\ ret'.op = "Dequeue"
             /\ ret'.err # ""
             /\ ret'.isNil]_vars

\* what an ingestion request answered by resp' asked for
IngestStep ==
    /\ resp'.op \in {"createConversation", "batchCreateConversations"}
    /\ resp' # resp \/ nextId' # nextId \/ db' # db
AutoAsked == resp'.input[2] = NoQuery \/ resp'.input[2] = Query("true")
\* the conversations of the request that were stored, in input order
StoredNow ==
    IF resp'.op = "batchCreateConversations" THEN resp'.body.conversation_ids
    ELSE IF resp'.status = 201 THEN <<resp'.input[1]>> ELSE <<>>
\* one task for each of them, built by the n-th call of Enqueue onwards
DispatchOf(ids, n) ==
    [i \in DOMAIN ids |-> NewTask(ids[i], Slice(DefaultEvaluators), n + i - 1)]
\* the tasks the step appended to the queue
AppendedNow ==
    SubSeq(enqLog'[EvaluationsQueue], Len(enqLog[EvaluationsQueue]) + 1,
           Len(enqLog'[EvaluationsQueue]))
IsSubsequence(a, b) ==
    \E f \in [DOMAIN a -> DOMAIN b] :
       /\ \A i, j \in DOMAIN a : i < j => f[i] < f[j]
       /\ \A i \in DOMAIN a : a[i] = b[f[i]]

\* C29 as claimed: with auto_evaluate "true" or absent an ingestion request
\* appends to the "evaluations" queue one task for each conversation it
\* stored, with the conversation's id, type "evaluate" and the default
\* evaluators, in input order; with any other value it appends none.
IngestionEnqueuesEach ==
    [][IngestStep =>
          AppendedNow = IF AutoAsked THEN DispatchOf(StoredNow, nextId) ELSE <<>>]_vars

\* C29 as amended: with auto_evaluate "true" or absent an ingestion request
\* calls Enqueue once for each conversation it stored, in input order, with a
\* task of the conversation's id, type "evaluate" and the default evaluators;
\* the tasks whose Enqueue succeeds are appended to the "evaluations" queue in
\* that order and a task whose Enqueue fails is dropped; a conversation that
\* was not stored and a request with any other value of auto_evaluate cause
\* no call.
IngestionDispatchesEach ==
    [][IngestStep =>
          LET wanted == IF AutoAsked THEN DispatchOf(StoredNow, nextId) ELSE <<>> IN
          /\ nextId' = nextId + Len(wanted)
          /\ IsSubsequence(AppendedNow, wanted)
          /\ store'[EvaluationsQueue].items =
                store[EvaluationsQueue].items
                    \o [i \in DOMAIN AppendedNow |-> Marshal(AppendedNow[i])]
          /\ Len(wanted) = 1 /\ ret'.err = "" => AppendedNow = wanted]_vars

\* a batch of two conversations with auto_evaluate absent: the second was
\* stored and dispatched, the first was not stored
IngestionDispatchesEachWitness ==
    /\ resp.op = "batchCreateConversations"
    /\ resp.input[2] = NoQuery
    /\ Len(resp.input[1]) = 2
    /\ resp.body.conversation_ids = <<resp.input[1][2]>>
    /\ Len(enqLog[EvaluationsQueue]) = 1
    /\ enqLog[EvaluationsQueue][1].ConversationID = resp.input[1][2]
    /\ nextId = 2

\* C30: a trigger request whose conversation lookup fails or finds no
\* conversation is answered with an error and leaves the "evaluations" queue
\* as it was, no Enqueue being called; a routing request for a conversation
\* that has no evaluation is answered 404 without a RoutingDecision.
NothingWithoutLookup ==
    [][/\ resp'.op = "triggerEvaluation" =>
             LET req == resp'.input IN
             \A dbErr \in BOOLEAN, fail \in BOOLEAN :
                /\ dbErr \/ req.ConversationID \notin db.convs
                /\ triggerEvaluation(req, dbErr, fail)
                => /\ resp'.status \in {400, 404, 500}
                   /\ resp'.body.error # ""
                   /\ resp'.body.task_id = ""
                   /\ UNCHANGED <<store, enqLog, nextId>>
       /\ resp'.op = "getRoutingDecision" =>
             LET conv == resp'.input[1] IN
             /\ \A i \in DOMAIN db.evaluations : db.evaluations[i].ConversationID # conv
             /\ getRoutingDecision(conv, FALSE)
             => /\ resp'.status = 404
                /\ resp'.body = NoRouting("No evaluation found for conversation")]_vars

\* a trigger for a conversation that is not stored was answered 404 while a
\* task of another conversation stays queued
NothingWithoutLookupWitness ==
    /\ resp.op = "triggerEvaluation" /\ resp.status = 404
    /\ resp.input.ConversationID \notin db.convs
    /\ db.convs # {}
    /\ Len(store[EvaluationsQueue].items) = 1
    /\ db.evaluations # <<>>

====
